---- MODULE Spec2Model ----
(***************************************************************************)
(* RouteLink logistic delivery and tracking system.                        *)
(*                                                                         *)
(* The repository holds the same program twice: the class-based            *)
(* "MAIN CODE/DSA_Classes.py" and the flat script "Main_CODE.py".  The two *)
(* differ in register_delivery only (the flat script has no id_exists      *)
(* check): Spec is the class-based program, MainSpec the flat script.      *)
(*                                                                         *)
(* Python objects are modelled by reference: `objects` is the heap of      *)
(* Delivery objects in allocation order, and `deliveries` and              *)
(* `schedule_queue` are sequences of references (indices into the heap),   *)
(* so that a mutation through one container is visible through the other.  *)
(*                                                                         *)
(* RouteGraph and SortingModule are libraries of functions: `call` holds   *)
(* the library call being run with its arguments, locals and return value. *)
(* RouteSpec runs find_route and calculate_travel_time, one loop iteration *)
(* per step, on the reference graph and on every small graph; SortSpec     *)
(* runs quick_sort and group_sort on every short list of records.          *)
(***************************************************************************)
EXTENDS Integers, Sequences, FiniteSets, TLC

VARIABLES objects, deliveries, schedule_queue, completed_deliveries, output, call

vars == <<objects, deliveries, schedule_queue, completed_deliveries, output, call>>

(* ---- bounds of the model ---- *)
MaxDeliveries == 3
MaxCompleted == 2
MaxEdges == 4
MaxRoute == 3
MaxLen == 3

(* ---- inputs typed by the operator ---- *)
(* the registration forms the operator may type in: a destination two hops  *)
(* from the depot, one that is no node of the graph, and the depot itself    *)
RegistrationForms ==
  { [id |-> "P1", sender |-> "Ann", receiver |-> "Bob", destination |-> "Area D"],
    [id |-> "P2", sender |-> "Cid", receiver |-> "Dee", destination |-> "Unknown"],
    [id |-> "P3", sender |-> "Eve", receiver |-> "Fay", destination |-> "Warehouse"] }
ParcelIds == {form.id : form \in RegistrationForms}
Choices == {"1", "2", "3", "4", "5"}

(* ---- RouteGraph ---- *)
routes ==
  [n \in {"Warehouse", "Area A", "Area B", "Area C", "Area D", "Area E", "Area F"} |->
     CASE n = "Warehouse" -> <<"Area A", "Area B">>
       [] n = "Area A" -> <<"Area C", "Area D">>
       [] n = "Area B" -> <<"Area E", "Area F">>
       [] OTHER -> <<>>]

travel_times ==
  [e \in {<<"Warehouse", "Area A">>, <<"Warehouse", "Area B">>, <<"Area A", "Area C">>,
          <<"Area A", "Area D">>, <<"Area B", "Area E">>, <<"Area B", "Area F">>} |->
     CASE e = <<"Warehouse", "Area A">> -> 3
       [] e = <<"Warehouse", "Area B">> -> 4
       [] e = <<"Area A", "Area C">> -> 3
       [] e = <<"Area A", "Area D">> -> 3
       [] e = <<"Area B", "Area E">> -> 4
       [] e = <<"Area B", "Area F">> -> 4]

(* routes.get(current, []) *)
routes_get(graph, current) == IF current \in DOMAIN graph THEN graph[current] ELSE <<>>

(* the children of `current` not yet visited, each with its path, in edge order *)
RECURSIVE enqueue_children(_, _, _)
enqueue_children(children, visited, path) ==
  IF children = <<>> THEN <<>>
  ELSE LET child == Head(children)
           rest == enqueue_children(Tail(children), visited, path)
       IN IF child \notin visited
          THEN <<[node |-> child, path |-> Append(path, child)]>> \o rest
          ELSE rest

(* the while loop of find_route: one iteration per call *)
RECURSIVE bfs_loop(_, _, _, _)
bfs_loop(graph, queue, visited, destination) ==
  IF queue = <<>> THEN <<>>
  ELSE LET current == Head(queue).node
           path == Head(queue).path
           popped == Tail(queue)
       IN IF current = destination THEN path
          ELSE IF current \in visited THEN bfs_loop(graph, popped, visited, destination)
          ELSE bfs_loop(graph,
                        popped \o enqueue_children(routes_get(graph, current),
                                                   visited \cup {current}, path),
                        visited \cup {current}, destination)

find_route_in(graph, destination) ==
  bfs_loop(graph, <<[node |-> "Warehouse", path |-> <<"Warehouse">>]>>, {}, destination)

(* find_route of the destinations on the registration forms, evaluated once *)
routes_found ==
  [destination \in {form.destination : form \in RegistrationForms} |->
     find_route_in(routes, destination)]

find_route(destination) ==
  IF destination \in DOMAIN routes_found THEN routes_found[destination]
  ELSE find_route_in(routes, destination)

(* mutant: a missing edge counts one minute *)
travel_times_get_default_one(edge) ==
  IF edge \in DOMAIN travel_times THEN travel_times[edge] ELSE 1

(* travel_times.get(edge, 0) *)
travel_times_get(edge) == IF edge \in DOMAIN travel_times THEN travel_times[edge] ELSE 0

RECURSIVE sum_edges(_, _)
sum_edges(route, i) ==
  IF i > Len(route) - 1 THEN 0
  ELSE travel_times_get(<<route[i], route[i + 1]>>) + sum_edges(route, i + 1)

(* mutant: the first pair of the route is skipped *)
calculate_travel_time_from_second(route) == sum_edges(route, 2)

calculate_travel_time(route) == sum_edges(route, 1)

(* " -> ".join(route) *)
RECURSIVE join_arrow(_)
join_arrow(route) ==
  IF route = <<>> THEN ""
  ELSE IF Len(route) = 1 THEN route[1]
  ELSE route[1] \o " -> " \o join_arrow(Tail(route))

(* ---- Delivery and DeliveryManager ---- *)
status_options ==
  [c \in {"1", "2", "3", "4"} |->
     CASE c = "1" -> "Pending"
       [] c = "2" -> "Dispatched"
       [] c = "3" -> "Out for Delivery"
       [] c = "4" -> "Delivered"]

Delivery(parcel_id, sender, receiver, destination, status) ==
  [id |-> parcel_id, sender |-> sender, receiver |-> receiver,
   destination |-> destination, status |-> status]

(* the reference 0 stands for None *)
None == 0

(* "for x in refs: if <test>: return x" and "return None" after the loop;  *)
(* matching is the set of references that pass the test                    *)
RECURSIVE first_ref(_, _)
first_ref(refs, matching) ==
  IF refs = <<>> THEN None
  ELSE IF Head(refs) \in matching THEN Head(refs)
  ELSE first_ref(Tail(refs), matching)

id_exists(parcel_id) ==
  \E i \in 1..Len(deliveries) : objects[deliveries[i]].id = parcel_id

(* mutant: an unknown id falls back to the first record of the store *)
find_by_id_OrFirst(parcel_id) ==
  IF \E r \in DOMAIN objects : objects[r].id = parcel_id
  THEN first_ref(deliveries, {r \in DOMAIN objects : objects[r].id = parcel_id})
  ELSE IF deliveries = <<>> THEN None ELSE deliveries[1]

find_by_id(parcel_id) ==
  first_ref(deliveries, {r \in DOMAIN objects : objects[r].id = parcel_id})

is_active(status) == status \in {"Dispatched", "Out for Delivery"}

(* mutant: the scan looks for Dispatched only *)
get_active_delivery_DispatchedOnly ==
  first_ref(deliveries, {r \in DOMAIN objects : objects[r].status = "Dispatched"})

get_active_delivery ==
  first_ref(deliveries, {r \in DOMAIN objects : is_active(objects[r].status)})

(* mutant: only Pending records open the update menu *)
get_active_deliveries_PendingOnly ==
  SelectSeq(deliveries, LAMBDA r : objects[r].status = "Pending")

get_active_deliveries ==
  SelectSeq(deliveries, LAMBDA r : objects[r].status # "Delivered")

(* mutant: the travel time is computed even when no route was found, and the *)
(* separator is dropped from the route                                       *)
complete_delivery_unjoined(delivery) ==
  LET route == find_route(delivery.destination)
  IN [id |-> delivery.id, sender |-> delivery.sender, receiver |-> delivery.receiver,
      origin |-> "Warehouse", destination |-> delivery.destination,
      route |-> IF route # <<>> THEN route[Len(route)] ELSE "N/A",
      time |-> calculate_travel_time(route), status |-> "Delivered"]

(* mutant: the receiver is written where the id belongs *)
complete_delivery_receiver_as_id(delivery) ==
  LET route == find_route(delivery.destination)
      route_str == IF route # <<>> THEN join_arrow(route) ELSE "N/A"
      travel_time == IF route # <<>> THEN calculate_travel_time(route) ELSE 0
  IN [id |-> delivery.receiver, sender |-> delivery.sender, receiver |-> delivery.receiver,
      origin |-> "Warehouse", destination |-> delivery.destination,
      route |-> route_str, time |-> travel_time, status |-> "Delivered"]

complete_delivery(delivery) ==
  LET route == find_route(delivery.destination)
      route_str == IF route # <<>> THEN join_arrow(route) ELSE "N/A"
      travel_time == IF route # <<>> THEN calculate_travel_time(route) ELSE 0
  IN [id |-> delivery.id, sender |-> delivery.sender, receiver |-> delivery.receiver,
      origin |-> "Warehouse", destination |-> delivery.destination,
      route |-> route_str, time |-> travel_time, status |-> "Delivered"]

(* ---- Scheduler ---- *)
(* mutant: the scan runs back to front *)
RECURSIVE reversed(_)
reversed(refs) == IF refs = <<>> THEN <<>> ELSE Append(reversed(Tail(refs)), Head(refs))
next_pending_from_back(objs) ==
  first_ref(reversed(schedule_queue), {r \in DOMAIN objs : objs[r].status = "Pending"})

(* the record dispatch_next_pending finds, scanning the queue over heap objs *)
next_pending(objs) ==
  first_ref(schedule_queue, {r \in DOMAIN objs : objs[r].status = "Pending"})

(* mutant: the scan does not stop at the first Pending record *)
dispatch_all_pending(objs) ==
  [r \in DOMAIN objs |->
     IF objs[r].status = "Pending" /\ \E i \in 1..Len(schedule_queue) : schedule_queue[i] = r
     THEN [objs[r] EXCEPT !.status = "Dispatched"] ELSE objs[r]]

dispatch_next_pending(objs) ==
  LET r == next_pending(objs)
  IN IF r # None THEN [objs EXCEPT ![r].status = "Dispatched"] ELSE objs

(* ---- what the operator sees: the outcome printed by the last operation ---- *)
(* arg is what the message names: the parcel id typed into register_delivery, *)
(* the new status of a successful update_status                              *)
Printed(op, msg, arg) == [op |-> op, msg |-> msg, arg |-> arg]

(* ---- register_delivery ---- *)
(* the status given to a new record *)
(* mutant: every new record is dispatched at once *)
new_status_AlwaysDispatched == "Dispatched"

new_status == IF get_active_delivery = None THEN "Dispatched" ELSE "Pending"

(* mutant: a record dispatched at once is not put on the queue *)
add_record_QueuePendingOnly(parcel_id, sender, receiver, destination) ==
  /\ Len(deliveries) < MaxDeliveries
  /\ objects' = Append(objects, Delivery(parcel_id, sender, receiver, destination, new_status))
  /\ deliveries' = Append(deliveries, Len(objects) + 1)
  /\ schedule_queue' = IF new_status = "Pending"
                       THEN Append(schedule_queue, Len(objects) + 1) ELSE schedule_queue
  /\ output' = Printed("register_delivery", new_status, parcel_id)
  /\ UNCHANGED completed_deliveries

add_record(parcel_id, sender, receiver, destination) ==
  /\ Len(deliveries) < MaxDeliveries
  /\ objects' = Append(objects, Delivery(parcel_id, sender, receiver, destination, new_status))
  /\ deliveries' = Append(deliveries, Len(objects) + 1)
  /\ schedule_queue' = Append(schedule_queue, Len(objects) + 1)
  /\ output' = Printed("register_delivery", new_status, parcel_id)
  /\ UNCHANGED completed_deliveries

(* UserInterface.register_delivery of DSA_Classes.py *)
register_delivery(parcel_id, sender, receiver, destination) ==
  IF id_exists(parcel_id)
  THEN /\ output' = Printed("register_delivery", "already exists", parcel_id)
       /\ UNCHANGED <<objects, deliveries, schedule_queue, completed_deliveries>>
  ELSE add_record(parcel_id, sender, receiver, destination)

(* register_delivery of Main_CODE.py: no existence check *)
Main_register_delivery(parcel_id, sender, receiver, destination) ==
  add_record(parcel_id, sender, receiver, destination)

(* ---- update_status ---- *)
(* mutant: every transition into Delivered completes *)
completes_from_any(old_status, new) == new = "Delivered"

(* mutant: only a Dispatched record completes *)
completes_from_dispatched(old_status, new) == new = "Delivered" /\ old_status = "Dispatched"

(* the transition that records a completion and dispatches the next parcel *)
completes(old_status, new) == new = "Delivered" /\ is_active(old_status)

(* the heap, the completion log and the printed outcome after update_status   *)
(* with the inputs parcel_id and choice (read only as far as the code asks)   *)
update_status_result(parcel_id, choice) ==
  LET same(msg) ==
        [objects |-> objects, completed_deliveries |-> completed_deliveries,
         output |-> Printed("update_status", msg, "-")]
      delivery == find_by_id(parcel_id)
  IN IF get_active_deliveries = <<>> THEN same("no active deliveries")
     ELSE IF delivery = None THEN same("not found")
     ELSE IF choice \notin DOMAIN status_options THEN same("invalid choice")
     ELSE LET old_status == objects[delivery].status
              new == status_options[choice]
              updated == [objects EXCEPT ![delivery].status = new]
          IN IF completes(old_status, new)
             THEN [objects |-> dispatch_next_pending(updated),
                   completed_deliveries |->
                     Append(completed_deliveries, complete_delivery(updated[delivery])),
                   output |-> Printed("update_status",
                                      IF next_pending(updated) # None
                                      THEN "updated, next auto-dispatched"
                                      ELSE "updated, no pending", new)]
             ELSE [objects |-> updated, completed_deliveries |-> completed_deliveries,
                   output |-> Printed("update_status", "updated", new)]

update_status(parcel_id, choice) ==
  LET result == update_status_result(parcel_id, choice)
  IN /\ Len(result.completed_deliveries) <= MaxCompleted
     /\ objects' = result.objects
     /\ completed_deliveries' = result.completed_deliveries
     /\ output' = result.output
     /\ UNCHANGED <<deliveries, schedule_queue>>

(* ---- the program ---- *)
(* DeliveryManager(), Scheduler(): empty store, queue and log *)
NoDeliveries ==
  /\ objects = <<>>
  /\ deliveries = <<>>
  /\ schedule_queue = <<>>
  /\ completed_deliveries = <<>>
  /\ output = Printed("start", "-", "-")

(* no library call is traced while the menu runs *)
NoCall == [fn |-> "none"]

Init ==
  /\ NoDeliveries
  /\ call = NoCall

(* main_menu of DSA_Classes.py *)
Next ==
  \/ \E form \in RegistrationForms :
       /\ register_delivery(form.id, form.sender, form.receiver, form.destination)
       /\ UNCHANGED call
  \/ \E parcel_id \in ParcelIds, choice \in Choices :
       /\ update_status(parcel_id, choice)
       /\ UNCHANGED call

Spec == Init /\ [][Next]_vars

(* main_menu of Main_CODE.py *)
MainNext ==
  \/ \E form \in RegistrationForms :
       /\ Main_register_delivery(form.id, form.sender, form.receiver, form.destination)
       /\ UNCHANGED call
  \/ \E parcel_id \in ParcelIds, choice \in Choices :
       /\ update_status(parcel_id, choice)
       /\ UNCHANGED call

MainSpec == Init /\ [][MainNext]_vars

(* ---- the operator follows the chain Pending -> Dispatched -> Out for Delivery -> Delivered ---- *)
(* the transitions of the menu that advance an active record *)
is_forward(old_status, new) ==
  \/ old_status = "Dispatched" /\ new \in {"Out for Delivery", "Delivered"}
  \/ old_status = "Out for Delivery" /\ new = "Delivered"

(* update_status, called with an id and a code that advance an active record; *)
(* every record is delivered at most once, so the log needs no bound          *)
update_status_forward(parcel_id, choice) ==
  LET delivery == find_by_id(parcel_id)
      result == update_status_result(parcel_id, choice)
  IN /\ delivery # None
     /\ choice \in DOMAIN status_options
     /\ is_forward(objects[delivery].status, status_options[choice])
     /\ objects' = result.objects
     /\ completed_deliveries' = result.completed_deliveries
     /\ output' = result.output
     /\ UNCHANGED <<deliveries, schedule_queue>>

ForwardNext ==
  \/ \E form \in RegistrationForms :
       /\ register_delivery(form.id, form.sender, form.receiver, form.destination)
       /\ UNCHANGED call
  \/ \E parcel_id \in ParcelIds, choice \in Choices :
       /\ update_status_forward(parcel_id, choice)
       /\ UNCHANGED call

ForwardSpec == Init /\ [][ForwardNext]_vars

(* ---- the operator only ever reports the active parcel as delivered ---- *)
(* update_status, called with the id of the active record and code 4 *)
update_status_deliver_active ==
  LET delivery == get_active_delivery
  IN /\ delivery # None
     /\ LET result == update_status_result(objects[delivery].id, "4")
        IN /\ objects' = result.objects
           /\ completed_deliveries' = result.completed_deliveries
           /\ output' = result.output
     /\ UNCHANGED <<deliveries, schedule_queue>>

(* main_menu of DSA_Classes.py *)
DeliverNext ==
  \/ \E form \in RegistrationForms :
       /\ register_delivery(form.id, form.sender, form.receiver, form.destination)
       /\ UNCHANGED call
  \/ /\ update_status_deliver_active
     /\ UNCHANGED call

(* the operator keeps reporting deliveries; nobody has to register anything *)
DeliverFairSpec ==
  Init /\ [][DeliverNext]_vars /\ WF_vars(update_status_deliver_active /\ UNCHANGED call)

(* main_menu of Main_CODE.py *)
MainDeliverNext ==
  \/ \E form \in RegistrationForms :
       /\ Main_register_delivery(form.id, form.sender, form.receiver, form.destination)
       /\ UNCHANGED call
  \/ /\ update_status_deliver_active
     /\ UNCHANGED call

MainDeliverFairSpec ==
  Init /\ [][MainDeliverNext]_vars /\ WF_vars(update_status_deliver_active /\ UNCHANGED call)

(* ---- register_delivery called by two callers at once ---- *)
(* Each caller runs register_delivery statement by statement: the read of    *)
(* the id with its existence check, the scan for the active delivery, and    *)
(* the insertion.  The other caller may run between any two of them.  A      *)
(* frame holds the caller's local variables; seen is the length of the store *)
(* when the call began.                                                      *)
Callers == {"a", "b"}

Idle == [pc |-> "idle"]

frame_of(c) == call.frames[c]

(* parcel_id = input(...); if id_exists(parcel_id): print error; return *)
register_begin(c, form) ==
  /\ frame_of(c).pc = "idle"
  /\ IF id_exists(form.id)
     THEN /\ output' = Printed("register_delivery", "already exists", form.id)
          /\ UNCHANGED call
     ELSE /\ call' = [call EXCEPT !.frames[c] =
                        [pc |-> "scan", form |-> form, seen |-> Len(deliveries)]]
          /\ UNCHANGED output
  /\ UNCHANGED <<objects, deliveries, schedule_queue, completed_deliveries>>

(* Main_CODE.py reads the id and goes on without a check *)
Main_register_begin(c, form) ==
  /\ frame_of(c).pc = "idle"
  /\ call' = [call EXCEPT !.frames[c] =
                [pc |-> "scan", form |-> form, seen |-> Len(deliveries)]]
  /\ UNCHANGED <<objects, deliveries, schedule_queue, completed_deliveries, output>>

(* active_delivery = get_active_delivery(); status = ...; print(...) *)
register_scan(c) ==
  /\ frame_of(c).pc = "scan"
  /\ call' = [call EXCEPT !.frames[c] =
                [pc |-> "insert", form |-> frame_of(c).form, seen |-> frame_of(c).seen,
                 status |-> new_status]]
  /\ output' = Printed("register_delivery", new_status, frame_of(c).form.id)
  /\ UNCHANGED <<objects, deliveries, schedule_queue, completed_deliveries>>

(* delivery = Delivery(...); add_delivery(delivery); add_to_queue(delivery) *)
register_insert(c) ==
  /\ frame_of(c).pc = "insert"
  /\ Len(deliveries) < MaxDeliveries
  /\ LET form == frame_of(c).form
     IN /\ objects' = Append(objects, Delivery(form.id, form.sender, form.receiver,
                                               form.destination, frame_of(c).status))
        /\ output' = Printed("register_delivery", frame_of(c).status, form.id)
  /\ deliveries' = Append(deliveries, Len(objects) + 1)
  /\ schedule_queue' = Append(schedule_queue, Len(objects) + 1)
  /\ call' = [call EXCEPT !.frames[c] = Idle]
  /\ UNCHANGED completed_deliveries

InterleavedInit ==
  /\ NoDeliveries
  /\ call = [fn |-> "register_delivery", frames |-> [c \in Callers |-> Idle]]

InterleavedNext ==
  \/ \E c \in Callers, form \in RegistrationForms : register_begin(c, form)
  \/ \E c \in Callers : register_scan(c)
  \/ \E c \in Callers : register_insert(c)

InterleavedSpec == InterleavedInit /\ [][InterleavedNext]_vars

MainInterleavedNext ==
  \/ \E c \in Callers, form \in RegistrationForms : Main_register_begin(c, form)
  \/ \E c \in Callers : register_scan(c)
  \/ \E c \in Callers : register_insert(c)

MainInterleavedSpec == InterleavedInit /\ [][MainInterleavedNext]_vars

(* ---- RouteGraph as a library: find_route and calculate_travel_time ---- *)
(* the graphs find_route is run on besides the reference graph: every graph  *)
(* with at most MaxEdges edges whose keys are TestKeys and whose children    *)
(* are TestKeys or the leaf "Area C", which is no key of the dictionary      *)
TestKeys == {"Warehouse", "Area A", "Area B"}
TestChildren == TestKeys \cup {"Area C"}
EmptyGraph == [n \in TestKeys |-> <<>>]
ReferenceDestinations == DOMAIN routes \cup {"Unknown"}
TestDestinations == TestChildren \cup {"Unknown"}
(* the routes calculate_travel_time is run on: any sequence of these names *)
RouteNames == {"Warehouse", "Area A", "Area B", "Area D", "Unknown"}
RouteInputs == UNION {[1..n -> RouteNames] : n \in 0..MaxRoute}

RECURSIVE count_edges(_, _)
count_edges(graph, keys) ==
  IF keys = {} THEN 0
  ELSE LET n == CHOOSE k \in keys : TRUE
       IN Len(graph[n]) + count_edges(graph, keys \ {n})

(* mutant: the frontier is a stack, children are pushed on its front *)
find_route_step_stack(graph, queue, visited, destination) ==
  LET current == Head(queue).node
      path == Head(queue).path
      popped == Tail(queue)
  IN IF current = destination
     THEN [queue |-> popped, visited |-> visited, pc |-> "returned", ret |-> path]
     ELSE IF current \in visited
     THEN [queue |-> popped, visited |-> visited, pc |-> "loop", ret |-> <<>>]
     ELSE [queue |-> enqueue_children(routes_get(graph, current),
                                      visited \cup {current}, path) \o popped,
           visited |-> visited \cup {current}, pc |-> "loop", ret |-> <<>>]

(* mutant: visited.add(current) is missing *)
find_route_step_unmarked(graph, queue, visited, destination) ==
  LET current == Head(queue).node
      path == Head(queue).path
      popped == Tail(queue)
  IN IF current = destination
     THEN [queue |-> popped, visited |-> visited, pc |-> "returned", ret |-> path]
     ELSE [queue |-> popped \o enqueue_children(routes_get(graph, current), visited, path),
           visited |-> visited, pc |-> "loop", ret |-> <<>>]

(* one iteration of the while loop of find_route, queue not empty *)
find_route_step(graph, queue, visited, destination) ==
  LET current == Head(queue).node
      path == Head(queue).path
      popped == Tail(queue)
  IN IF current = destination
     THEN [queue |-> popped, visited |-> visited, pc |-> "returned", ret |-> path]
     ELSE IF current \in visited
     THEN [queue |-> popped, visited |-> visited, pc |-> "loop", ret |-> <<>>]
     ELSE [queue |-> popped \o enqueue_children(routes_get(graph, current),
                                                visited \cup {current}, path),
           visited |-> visited \cup {current}, pc |-> "loop", ret |-> <<>>]

(* the dictionary literal of RouteGraph.__init__, one more edge *)
declare_edge(parent, child) ==
  /\ call.fn = "RouteGraph"
  /\ DOMAIN call.routes = TestKeys
  /\ count_edges(call.routes, TestKeys) < MaxEdges
  /\ \A i \in 1..Len(call.routes[parent]) : call.routes[parent][i] # child
  /\ call' = [call EXCEPT !.routes[parent] = Append(@, child)]
  /\ UNCHANGED <<objects, deliveries, schedule_queue, completed_deliveries, output>>

(* find_route(destination) is called: queue and visited are initialised *)
find_route_enter(destination) ==
  /\ call.fn = "RouteGraph"
  /\ call' = [fn |-> "find_route", routes |-> call.routes, destination |-> destination,
              queue |-> <<[node |-> "Warehouse", path |-> <<"Warehouse">>]>>,
              visited |-> {}, pc |-> "loop", ret |-> <<>>]
  /\ UNCHANGED <<objects, deliveries, schedule_queue, completed_deliveries, output>>

(* "while queue:" one iteration, or "return []" when the queue is empty *)
find_route_iterate ==
  /\ call.fn = "find_route"
  /\ call.pc = "loop"
  /\ IF call.queue = <<>>
     THEN call' = [call EXCEPT !.pc = "returned", !.ret = <<>>]
     ELSE LET step == find_route_step(call.routes, call.queue, call.visited, call.destination)
          IN call' = [call EXCEPT !.queue = step.queue, !.visited = step.visited,
                                  !.pc = step.pc, !.ret = step.ret]
  /\ UNCHANGED <<objects, deliveries, schedule_queue, completed_deliveries, output>>

(* calculate_travel_time(route) if route else 0, on the route find_route returned *)
calculate_travel_time_of_found ==
  /\ call.fn = "find_route"
  /\ call.pc = "returned"
  /\ call' = [fn |-> "calculate_travel_time", routes |-> call.routes,
              destination |-> call.destination, route |-> call.ret,
              ret |-> IF call.ret # <<>> THEN calculate_travel_time(call.ret) ELSE 0]
  /\ UNCHANGED <<objects, deliveries, schedule_queue, completed_deliveries, output>>

(* calculate_travel_time(route) on any route *)
calculate_travel_time_of(route) ==
  /\ call.fn = "RouteGraph"
  /\ call.routes = routes
  /\ call' = [fn |-> "calculate_travel_time", routes |-> call.routes,
              destination |-> "-", route |-> route, ret |-> calculate_travel_time(route)]
  /\ UNCHANGED <<objects, deliveries, schedule_queue, completed_deliveries, output>>

RouteInit ==
  /\ NoDeliveries
  /\ call \in {[fn |-> "RouteGraph", routes |-> routes],
               [fn |-> "RouteGraph", routes |-> EmptyGraph]}

RouteNext ==
  \/ \E parent \in TestKeys, child \in TestChildren : declare_edge(parent, child)
  \/ \E destination \in ReferenceDestinations \cup TestDestinations :
       /\ destination \in (IF call.routes = routes THEN ReferenceDestinations
                           ELSE TestDestinations)
       /\ find_route_enter(destination)
  \/ find_route_iterate
  \/ calculate_travel_time_of_found
  \/ \E route \in RouteInputs : calculate_travel_time_of(route)

RouteSpec == RouteInit /\ [][RouteNext]_vars

(* a call of find_route runs its loop until it returns *)
RouteFairSpec == RouteSpec /\ WF_vars(find_route_iterate)

(* ---- SortingModule as a library: quick_sort and group_sort ---- *)
(* the strings that occur as sort keys, in the order of Python's < on str *)
StringOrder == <<"Area A", "Area B", "Delivered", "Dispatched", "Lost",
                 "Out for Delivery", "Pending", "Returned">>
str_index(s) == CHOOSE i \in 1..Len(StringOrder) : StringOrder[i] = s
str_lt(a, b) == str_index(a) < str_index(b)

(* the lists the functions are run on: the record at position i has the    *)
(* i-th id, any of two destinations and any of the four statuses or of two *)
(* values that are no status                                               *)
SortIds == <<"P1", "P2", "P3", "P4", "P5">>
SortDestinations == {"Area A", "Area B"}
SortStatuses == {status_options[c] : c \in DOMAIN status_options} \cup {"Returned", "Lost"}
SortKeys == {"destination", "status"}
SortInputs ==
  UNION {{[i \in 1..n |-> [id |-> SortIds[i], destination |-> fields[i][1],
                           status |-> fields[i][2]]] :
            fields \in [1..n -> SortDestinations \X SortStatuses]} : n \in 0..MaxLen}

(* mutant: the records equal to the pivot, last first *)
equal_to_pivot_reversed(arr, key, pivot_val) ==
  reversed(SelectSeq(arr, LAMBDA x : x[key] = pivot_val))

(* mutant: the pivot goes behind the other records equal to it *)
equal_to_pivot_rotated(arr, key, pivot_val) ==
  Append(Tail(SelectSeq(arr, LAMBDA x : x[key] = pivot_val)), arr[1])

(* middle = [x for x in arr if x.key == pivot_val] *)
equal_to_pivot(arr, key, pivot_val) == SelectSeq(arr, LAMBDA x : x[key] = pivot_val)

RECURSIVE quick_sort(_, _)
quick_sort(arr, key) ==
  IF Len(arr) <= 1 THEN arr
  ELSE LET pivot == arr[1]
       IN IF key \notin DOMAIN pivot THEN arr
          ELSE LET pivot_val == pivot[key]
                   left == SelectSeq(arr, LAMBDA x : str_lt(x[key], pivot_val))
                   middle == equal_to_pivot(arr, key, pivot_val)
                   right == SelectSeq(arr, LAMBDA x : str_lt(pivot_val, x[key]))
               IN quick_sort(left, key) \o middle \o quick_sort(right, key)

(* the keys of the dictionary groups, in the order of their first record *)
RECURSIVE groups_keys(_, _)
groups_keys(arr, primary_key) ==
  IF arr = <<>> THEN <<>>
  ELSE LET earlier == groups_keys(SubSeq(arr, 1, Len(arr) - 1), primary_key)
           key == arr[Len(arr)][primary_key]
       IN IF \E i \in 1..Len(earlier) : earlier[i] = key THEN earlier
          ELSE Append(earlier, key)

(* list(status_options.values()) *)
status_values == [i \in 1..4 |-> status_options[ToString(i)]]

(* mutant: a key that is no status ranks before every status *)
status_order_get_unknown_first(key) ==
  IF \E i \in 1..Len(status_values) : status_values[i] = key
  THEN (CHOOSE i \in 1..Len(status_values) : status_values[i] = key) - 1
  ELSE -1

(* status_order.get(k, 99) with status_order = {status: i for i, status in enumerate(...)} *)
status_order_get(key) ==
  IF \E i \in 1..Len(status_values) : status_values[i] = key
  THEN (CHOOSE i \in 1..Len(status_values) : status_values[i] = key) - 1
  ELSE 99

(* sorted(keys, key=status_order.get(k, 99)): ascending rank, keys of equal *)
(* rank in their input order; ranks is the set of ranks still to place     *)
RECURSIVE sorted_by_status_order(_, _)
sorted_by_status_order(keys, ranks) ==
  IF ranks = {} THEN <<>>
  ELSE LET least == CHOOSE r \in ranks : \A other \in ranks : r <= other
       IN SelectSeq(keys, LAMBDA k : status_order_get(k) = least)
            \o sorted_by_status_order(keys, ranks \ {least})

(* "for key in sorted_groups_keys: final_sorted_list.extend(quick_sort(groups[key], ...))" *)
RECURSIVE extend_sorted_groups(_, _, _, _)
extend_sorted_groups(arr, sorted_groups_keys, primary_key, secondary_key) ==
  IF sorted_groups_keys = <<>> THEN <<>>
  ELSE quick_sort(SelectSeq(arr, LAMBDA x : x[primary_key] = Head(sorted_groups_keys)),
                  secondary_key)
         \o extend_sorted_groups(arr, Tail(sorted_groups_keys), primary_key, secondary_key)

group_sort(arr, primary_key, secondary_key) ==
  LET keys == groups_keys(arr, primary_key)
      sorted_groups_keys ==
        sorted_by_status_order(keys, {status_order_get(keys[i]) : i \in 1..Len(keys)})
  IN extend_sorted_groups(arr, sorted_groups_keys, primary_key, secondary_key)

(* quick_sort(arr, key) is called on a list *)
quick_sort_call(key) ==
  /\ call.fn = "SortingModule"
  /\ call' = [fn |-> "quick_sort", xs |-> call.arr, arr |-> call.arr, key |-> key,
              ret |-> quick_sort(call.arr, key), calls |-> 1]
  /\ UNCHANGED <<objects, deliveries, schedule_queue, completed_deliveries, output>>

(* quick_sort(quick_sort(xs, key), key): the list returned is sorted again *)
quick_sort_again ==
  /\ call.fn = "quick_sort"
  /\ call.calls = 1
  /\ call' = [call EXCEPT !.arr = call.ret, !.ret = quick_sort(call.ret, call.key),
                          !.calls = 2]
  /\ UNCHANGED <<objects, deliveries, schedule_queue, completed_deliveries, output>>

(* group_sort(arr, primary_key, secondary_key, status_options) is called on a list *)
group_sort_call(primary_key, secondary_key) ==
  /\ call.fn = "SortingModule"
  /\ call' = [fn |-> "group_sort", arr |-> call.arr, primary_key |-> primary_key,
              secondary_key |-> secondary_key,
              ret |-> group_sort(call.arr, primary_key, secondary_key)]
  /\ UNCHANGED <<objects, deliveries, schedule_queue, completed_deliveries, output>>

SortInit ==
  /\ NoDeliveries
  /\ call \in {[fn |-> "SortingModule", arr |-> arr] : arr \in SortInputs}

SortNext ==
  \/ \E key \in SortKeys : quick_sort_call(key)
  \/ quick_sort_again
  \/ group_sort_call("status", "destination")

SortSpec == SortInit /\ [][SortNext]_vars

TypeOK ==
  /\ Len(objects) <= MaxDeliveries
  /\ \A i \in 1..Len(deliveries) : deliveries[i] \in 1..Len(objects)

(* ======================= properties ======================= *)
(* the records of the store, in store order *)
StoreIds == {objects[deliveries[i]].id : i \in 1..Len(deliveries)}
ActiveRefs == {deliveries[i] : i \in {j \in 1..Len(deliveries) :
                  objects[deliveries[j]].status \in {"Dispatched", "Out for Delivery"}}}
ActiveCount == Cardinality(ActiveRefs)
ActiveCountNext == Cardinality(ActiveRefs')
(* the step taken is a register_delivery / a register_delivery that added a record *)
RegisterStep == output'.op = "register_delivery"
RegisterSucceeds == RegisterStep /\ output'.msg # "already exists"
UpdateStep == output'.op = "update_status"
FramesUnchanged == UNCHANGED <<objects, deliveries, schedule_queue, completed_deliveries>>
(* the record register_delivery has just appended to the store *)
NewRecord == objects'[deliveries'[Len(deliveries')]]
(* update_status moves record r into Delivered from an active status *)
DeliversActive(r) ==
  /\ UpdateStep
  /\ objects[r].status \in {"Dispatched", "Out for Delivery"}
  /\ objects'[r].status = "Delivered"
(* the first record of the store with this id: the one a lookup by id resolves to *)
FirstWithId(parcel_id) ==
  deliveries[CHOOSE i \in 1..Len(deliveries) :
               /\ objects[deliveries[i]].id = parcel_id
               /\ \A j \in 1..(i - 1) : objects[deliveries[j]].id # parcel_id]

(* C1: after a successful register(id, ...) the store holds a record with    *)
(* that id, and a register with an id already in the store fails with        *)
(* DuplicateId and leaves the store, the dispatch queue and the completion   *)
(* log unchanged.                                                            *)
C1_RegisterThenDuplicateFails ==
  [][RegisterStep =>
       IF output'.arg \in StoreIds
       THEN output'.msg = "already exists" /\ FramesUnchanged
       ELSE output'.msg # "already exists" /\ output'.arg \in StoreIds']_vars

(* C2: in every reachable state no two records of the store have the same id *)
C2_UniqueIds ==
  \A i, j \in 1..Len(deliveries) :
    i # j => objects[deliveries[i]].id # objects[deliveries[j]].id

(* C3: a successful register creates the new record as Dispatched exactly    *)
(* when no record of the store is Dispatched or Out for Delivery at the call, *)
(* and as Pending otherwise.                                                 *)
C3_NewStatusByActive ==
  [][RegisterSucceeds =>
       /\ Len(deliveries') = Len(deliveries) + 1
       /\ NewRecord.status = (IF ActiveRefs = {} THEN "Dispatched" ELSE "Pending")]_vars

C3_Witness ==
  /\ output.op = "register_delivery"
  /\ output.msg = "Pending"
  /\ Len(deliveries) >= 2
  /\ objects[deliveries[Len(deliveries)]].status = "Pending"
  /\ objects[deliveries[1]].status = "Out for Delivery"

(* C4: register on an empty or fully delivered store leaves at most one      *)
(* active record, and register never raises the number of active records     *)
(* above one when it was at most one before.                                 *)
C4_RegisterKeepsOneActive ==
  [][RegisterStep =>
       /\ (\A i \in 1..Len(deliveries) : objects[deliveries[i]].status = "Delivered")
             => ActiveCountNext <= 1
       /\ ActiveCount <= 1 => ActiveCountNext <= 1]_vars

C4_Witness ==
  /\ output.op = "register_delivery"
  /\ output.msg = "Dispatched"
  /\ Len(deliveries) >= 2
  /\ \A i \in 1..(Len(deliveries) - 1) : objects[deliveries[i]].status = "Delivered"
  /\ ActiveCount = 1

(* C5 as claimed: in every reachable state at most one record is Dispatched  *)
(* or Out for Delivery.                                                      *)
C5_SingleActiveAlways == ActiveCount <= 1

(* C5 as amended: only an update_status that sets a status of Dispatched or  *)
(* Out for Delivery can raise the number of active records above one; every  *)
(* other step (register, any other update_status, the automatic dispatch     *)
(* after a completion) leaves at most one active record when there was at    *)
(* most one before.                                                          *)
C5_OnlyFreeJumpAddsActive ==
  [][(ActiveCount <= 1 /\ ~(UpdateStep /\ output'.arg \in {"Dispatched", "Out for Delivery"}))
       => ActiveCountNext <= 1]_vars

C5_Witness ==
  /\ output.op = "update_status"
  /\ output.msg = "updated, next auto-dispatched"
  /\ ActiveCount = 1
  /\ \E i \in 1..Len(deliveries) : objects[deliveries[i]].status = "Pending"

(* C6: an update_status that moves a record into Delivered from Dispatched   *)
(* or Out for Delivery appends exactly one CompletionRecord: id and          *)
(* destination of the record, origin Warehouse, route and time those of      *)
(* find_route(destination), or "N/A" and 0 when find_route returns the empty *)
(* sequence.                                                                 *)
C6_CompletionRecordAppended ==
  [][\A r \in DOMAIN objects : DeliversActive(r) =>
       LET route == find_route(objects[r].destination)
           last == completed_deliveries'[Len(completed_deliveries')]
       IN /\ Len(completed_deliveries') = Len(completed_deliveries) + 1
          /\ SubSeq(completed_deliveries', 1, Len(completed_deliveries)) = completed_deliveries
          /\ last.id = objects[r].id
          /\ last.destination = objects[r].destination
          /\ last.origin = "Warehouse"
          /\ last.status = "Delivered"
          /\ IF route = <<>>
             THEN last.route = "N/A" /\ last.time = 0
             ELSE last.route = join_arrow(route) /\ last.time = calculate_travel_time(route)
          /\ objects[r].destination = "Area D"
               => last.route = "Warehouse -> Area A -> Area D" /\ last.time = 6
          /\ objects[r].destination = "Unknown" => last.route = "N/A" /\ last.time = 0
          /\ objects[r].destination = "Warehouse" => last.route = "Warehouse" /\ last.time = 0]_vars

C6_Witness ==
  /\ output.op = "update_status"
  /\ output.arg = "Delivered"
  /\ Len(completed_deliveries) = 2
  /\ completed_deliveries[1].route = "Warehouse -> Area A -> Area D"
  /\ completed_deliveries[2].route = "N/A"

(* C7: an update_status that moves a record into Delivered from an active    *)
(* status dispatches the Pending record earliest in the queue, and only that *)
(* one; when no record is Pending no other record changes.                   *)
C7_DispatchesEarliestPending ==
  [][\A r \in DOMAIN objects : DeliversActive(r) =>
       LET pending == {i \in 1..Len(schedule_queue) :
                         objects[schedule_queue[i]].status = "Pending"}
       IN IF pending # {}
          THEN LET first == schedule_queue[CHOOSE i \in pending : \A j \in pending : i <= j]
               IN /\ objects'[first].status = "Dispatched"
                  /\ \A q \in DOMAIN objects \ {r, first} : objects'[q] = objects[q]
          ELSE \A q \in DOMAIN objects \ {r} : objects'[q] = objects[q]]_vars

C7_Witness ==
  /\ output.op = "update_status"
  /\ output.msg = "updated, next auto-dispatched"
  /\ Len(schedule_queue) = 3
  /\ objects[schedule_queue[1]].status = "Delivered"
  /\ objects[schedule_queue[2]].status = "Dispatched"
  /\ objects[schedule_queue[3]].status = "Pending"

(* C8: an update_status that moves a record into Delivered directly from     *)
(* Pending changes that record's status only: no CompletionRecord, no        *)
(* automatic dispatch.                                                       *)
C8_DeliveredFromPendingOnlyStatus ==
  [][\A r \in DOMAIN objects :
       (UpdateStep /\ objects[r].status = "Pending" /\ objects'[r].status = "Delivered") =>
         /\ objects' = [objects EXCEPT ![r].status = "Delivered"]
         /\ UNCHANGED <<deliveries, schedule_queue, completed_deliveries>>]_vars

C8_Witness ==
  /\ output.op = "update_status"
  /\ output.arg = "Delivered"
  /\ completed_deliveries = <<>>
  /\ \E i, j \in 1..Len(deliveries) :
       /\ objects[deliveries[i]].status = "Delivered"
       /\ objects[deliveries[j]].status = "Pending"

(* C9 as claimed: the completion log never holds two CompletionRecords for   *)
(* the same record.                                                          *)
C9_OneCompletionPerRecord ==
  \A i, j \in 1..Len(completed_deliveries) :
    i # j => completed_deliveries[i].id # completed_deliveries[j].id

(* C9 as amended: a CompletionRecord is created exactly once per transition  *)
(* of a record into Delivered from an active status: every step appends to   *)
(* the log as many entries as records it moves from active into Delivered    *)
(* (one or none) and keeps the entries already there; a record set back to   *)
(* an active status and delivered again gets another CompletionRecord.       *)
C9_OneCompletionPerTransition ==
  [][/\ Len(completed_deliveries') = Len(completed_deliveries) +
          Cardinality({r \in DOMAIN objects :
                         /\ objects[r].status \in {"Dispatched", "Out for Delivery"}
                         /\ objects'[r].status = "Delivered"})
     /\ SubSeq(completed_deliveries', 1, Len(completed_deliveries)) = completed_deliveries
     /\ Len(completed_deliveries') <= Len(completed_deliveries) + 1]_vars

C9_Witness ==
  /\ Len(completed_deliveries) = 2
  /\ completed_deliveries[1].id = completed_deliveries[2].id
  /\ output.op = "update_status"
  /\ output.arg = "Delivered"

C11_FailedUpdateChangesNothing ==
  /\ [](\A parcel_id \in ParcelIds \cup {"P9"} : \A choice \in Choices \cup {"0", "Delivered"} :
          (parcel_id \notin StoreIds \/ choice \notin {"1", "2", "3", "4"}) =>
            LET result == update_status_result(parcel_id, choice)
            IN /\ result.objects = objects
               /\ result.completed_deliveries = completed_deliveries
               /\ result.output.msg \in {"no active deliveries", "not found", "invalid choice"}
               /\ (\E i \in 1..Len(deliveries) : objects[deliveries[i]].status # "Delivered")
                    => result.output.msg = (IF parcel_id \notin StoreIds
                                            THEN "not found" ELSE "invalid choice"))
  /\ [][(UpdateStep /\ output'.msg \in {"not found", "invalid choice"})
          => FramesUnchanged]_vars

C11_Witness ==
  /\ output.op = "update_status"
  /\ output.msg = "not found"
  /\ Len(deliveries) = 2
  /\ objects[deliveries[1]].status = "Dispatched"
  /\ objects[deliveries[2]].status = "Pending"
  /\ completed_deliveries = <<>>

(* C16: the dispatch queue and the store hold the same records in the same   *)
(* registration order, each record exactly once; register appends one record *)
(* to the back of both and no operation removes or reorders an element.      *)
C16_QueueMirrorsStore ==
  /\ [](/\ schedule_queue = deliveries
        /\ \A i, j \in 1..Len(deliveries) : i # j => deliveries[i] # deliveries[j]
        /\ \A i \in 1..Len(deliveries) : deliveries[i] \in DOMAIN objects)
  /\ [][/\ RegisterSucceeds =>
             /\ Len(objects') = Len(objects) + 1
             /\ deliveries' = Append(deliveries, Len(objects'))
             /\ schedule_queue' = Append(schedule_queue, Len(objects'))
        /\ ~RegisterSucceeds => UNCHANGED <<deliveries, schedule_queue>>]_vars

C16_Witness ==
  /\ Len(schedule_queue) = 3
  /\ schedule_queue = deliveries
  /\ output.op = "update_status"
  /\ output.msg = "updated, next auto-dispatched"
  /\ objects[schedule_queue[1]].status = "Delivered"

(* C20: id, sender, receiver and destination of a record never change after  *)
(* registration: update_status changes the status of the target record and,  *)
(* when it dispatches automatically, the status of one other record, and     *)
(* nothing else; register changes no field of an existing record.            *)
C20_OnlyStatusChanges ==
  [][/\ Len(objects') >= Len(objects)
     /\ \A r \in DOMAIN objects :
          objects'[r] = [objects[r] EXCEPT !.status = objects'[r].status]
     /\ RegisterStep => \A r \in DOMAIN objects : objects'[r] = objects[r]
     /\ UpdateStep =>
          /\ Len(objects') = Len(objects)
          /\ Cardinality({r \in DOMAIN objects : objects'[r] # objects[r]}) <= 2
          /\ Cardinality({r \in DOMAIN objects : objects'[r] # objects[r]}) = 2
               => \E r, q \in DOMAIN objects :
                    /\ objects[r].status \in {"Dispatched", "Out for Delivery"}
                    /\ objects'[r].status = "Delivered"
                    /\ objects[q].status = "Pending"
                    /\ objects'[q].status = "Dispatched"]_vars

C20_Witness ==
  /\ output.op = "update_status"
  /\ output.msg = "updated, next auto-dispatched"
  /\ Len(objects) = 3
  /\ objects[1] = Delivery("P2", "Cid", "Dee", "Unknown", "Delivered")
  /\ objects[2] = Delivery("P1", "Ann", "Bob", "Area D", "Dispatched")
  /\ objects[3] = Delivery("P3", "Eve", "Fay", "Warehouse", "Pending")

(* ---- helpers for the route properties ---- *)
GraphNodes(graph) ==
  DOMAIN graph \cup UNION {{graph[n][i] : i \in 1..Len(graph[n])} : n \in DOMAIN graph}

IsEdge(graph, parent, child) ==
  /\ parent \in DOMAIN graph
  /\ \E i \in 1..Len(graph[parent]) : graph[parent][i] = child

(* every walk of `hops` edges that starts at the Warehouse *)
RECURSIVE Walks(_, _)
Walks(graph, hops) ==
  IF hops = 0 THEN {<<"Warehouse">>}
  ELSE UNION {{Append(walk, child) :
                 child \in {n \in GraphNodes(graph) : IsEdge(graph, walk[Len(walk)], n)}} :
               walk \in Walks(graph, hops - 1)}

WalksTo(graph, hops, destination) ==
  {walk \in Walks(graph, hops) : walk[Len(walk)] = destination}

ChildIndex(graph, parent, child) ==
  CHOOSE i \in 1..Len(graph[parent]) : graph[parent][i] = child

(* p comes before q when, at the first node where they differ, p takes the *)
(* child declared earlier                                                  *)
WalkBefore(graph, p, q) ==
  \E i \in 2..Len(p) :
    /\ \A j \in 1..(i - 1) : p[j] = q[j]
    /\ ChildIndex(graph, p[i - 1], p[i]) < ChildIndex(graph, q[i - 1], q[i])

FindRouteReturned == call.fn = "find_route" /\ call.pc = "returned"

(* C12: on the reference graph find_route returns, for each node, the one  *)
(* path from the Warehouse to it, calculate_travel_time of that path is    *)
(* the sum of its weights (Area D: Warehouse, Area A, Area D and 6;        *)
(* Warehouse: itself and 0), and a name that is no node gets the empty     *)
(* route.                                                                  *)
C12_ReferenceRoutes ==
  LET path == [n \in ReferenceDestinations |->
                 CASE n = "Warehouse" -> <<"Warehouse">>
                   [] n = "Area A" -> <<"Warehouse", "Area A">>
                   [] n = "Area B" -> <<"Warehouse", "Area B">>
                   [] n = "Area C" -> <<"Warehouse", "Area A", "Area C">>
                   [] n = "Area D" -> <<"Warehouse", "Area A", "Area D">>
                   [] n = "Area E" -> <<"Warehouse", "Area B", "Area E">>
                   [] n = "Area F" -> <<"Warehouse", "Area B", "Area F">>
                   [] OTHER -> <<>>]
      minutes == [n \in ReferenceDestinations |->
                    CASE n \in {"Area A"} -> 3
                      [] n \in {"Area B"} -> 4
                      [] n \in {"Area C", "Area D"} -> 6
                      [] n \in {"Area E", "Area F"} -> 8
                      [] OTHER -> 0]
  IN (call.fn # "none" /\ call.routes = routes) =>
       /\ FindRouteReturned => call.ret = path[call.destination]
       /\ (call.fn = "calculate_travel_time" /\ call.destination # "-") =>
            /\ call.route = path[call.destination]
            /\ call.ret = minutes[call.destination]
       /\ FindRouteReturned =>
            \A hops \in 0..Cardinality(GraphNodes(routes)) :
              WalksTo(routes, hops, call.destination) \subseteq {call.ret}

C12_Witness ==
  /\ call.fn = "calculate_travel_time"
  /\ call.routes = routes
  /\ call.destination = "Area D"
  /\ call.route = <<"Warehouse", "Area A", "Area D">>
  /\ call.ret = 6

(* C17: on every graph find_route returns the empty route exactly when no  *)
(* walk leads from the Warehouse to the destination, and otherwise a walk  *)
(* along edges with the fewest hops, the one that takes the earliest       *)
(* declared child at the first point where the shortest walks differ.      *)
C17_FirstShortestWalk ==
  FindRouteReturned =>
    LET graph == call.routes
        destination == call.destination
        reach == {hops \in 0..(Cardinality(GraphNodes(graph)) - 1) :
                    WalksTo(graph, hops, destination) # {}}
    IN IF reach = {}
       THEN call.ret = <<>>
       ELSE LET least == CHOOSE hops \in reach : \A other \in reach : hops <= other
                shortest == WalksTo(graph, least, destination)
            IN /\ call.ret \in shortest
               /\ \A other \in shortest \ {call.ret} : WalkBefore(graph, call.ret, other)

(* two shortest walks to Area C; the one through the first declared child *)
C17_Witness ==
  /\ FindRouteReturned
  /\ call.routes = [EmptyGraph EXCEPT !["Warehouse"] = <<"Area B", "Area A">>,
                                      !["Area A"] = <<"Area C">>,
                                      !["Area B"] = <<"Area C">>]
  /\ call.destination = "Area C"
  /\ call.ret = <<"Warehouse", "Area B", "Area C">>

(* C18: find_route returns on every graph: an iteration either returns, or *)
(* expands a node not expanded before, or drops a frontier entry without   *)
(* expanding, so the pair (nodes not expanded, frontier length) decreases  *)
(* and every call that is entered returns.                                 *)
C18_FindRouteTerminates ==
  /\ [][(call.fn = "find_route" /\ call.pc = "loop")
          => \/ call'.pc = "returned"
             \/ /\ call.queue # <<>>
                /\ Head(call.queue).node \notin call.visited
                /\ call'.visited = call.visited \cup {Head(call.queue).node}
                /\ call'.visited \subseteq GraphNodes(call.routes)
             \/ /\ call'.visited = call.visited
                /\ Len(call'.queue) < Len(call.queue)]_vars
  /\ (call.fn = "find_route") ~> FindRouteReturned

(* a self-loop and a two-cycle, destination not reachable, frontier exhausted *)
C18_Witness ==
  /\ FindRouteReturned
  /\ call.routes = [EmptyGraph EXCEPT !["Warehouse"] = <<"Warehouse", "Area A">>,
                                      !["Area A"] = <<"Warehouse", "Area A">>]
  /\ call.destination = "Area C"
  /\ call.visited = {"Warehouse", "Area A"}
  /\ call.queue = <<>>
  /\ call.ret = <<>>

(* C19: calculate_travel_time(route) is the sum over the consecutive pairs *)
(* of the route of the weight of the pair when it is an edge and of 0 when *)
(* it is not; a route of length 0 or 1 takes 0.                            *)
C19_TravelTimeIsSumOfWeights ==
  call.fn = "calculate_travel_time" =>
    LET route == call.route
        pairs(weight) == {i \in 1..(Len(route) - 1) :
                            /\ <<route[i], route[i + 1]>> \in DOMAIN travel_times
                            /\ travel_times[<<route[i], route[i + 1]>>] = weight}
    IN /\ call.ret = 3 * Cardinality(pairs(3)) + 4 * Cardinality(pairs(4))
       /\ \A e \in DOMAIN travel_times : travel_times[e] \in {3, 4}
       /\ Len(route) <= 1 => call.ret = 0

(* a pair that is no edge followed by an edge of weight 4 *)
C19_Witness ==
  /\ call.fn = "calculate_travel_time"
  /\ call.route = <<"Unknown", "Warehouse", "Area B">>
  /\ call.ret = 4

(* ---- helpers for the sort properties ---- *)
(* ys holds the records of xs, each once (the ids of a list are distinct) *)
IsPermutation(xs, ys) ==
  /\ Len(ys) = Len(xs)
  /\ \A i \in 1..Len(xs) : \E j \in 1..Len(ys) : ys[j] = xs[i]
  /\ \A i, j \in 1..Len(ys) : ys[i] = ys[j] => i = j

IsAscending(xs, key) ==
  \A i, j \in 1..Len(xs) : i < j => ~str_lt(xs[j][key], xs[i][key])

PositionIn(xs, x) == CHOOSE i \in 1..Len(xs) : xs[i] = x

(* 0..3 for the four statuses in their order, 4 for any other value *)
StatusRank(status) ==
  CASE status = "Pending" -> 0
    [] status = "Dispatched" -> 1
    [] status = "Out for Delivery" -> 2
    [] status = "Delivered" -> 3
    [] OTHER -> 4

(* C13: quick_sort returns a permutation of its input, ascending in the    *)
(* key, and records with equal keys keep the order they had in the input.  *)
C13_SortedStablePermutation ==
  call.fn = "quick_sort" =>
    /\ IsPermutation(call.arr, call.ret)
    /\ IsAscending(call.ret, call.key)
    /\ \A i, j \in 1..Len(call.ret) :
         (i < j /\ call.ret[i][call.key] = call.ret[j][call.key])
           => PositionIn(call.arr, call.ret[i]) < PositionIn(call.arr, call.ret[j])

(* Area B, Area A, Area B by destination: P2 first, then P1 before P3 *)
C13_Witness ==
  /\ call.fn = "quick_sort"
  /\ call.calls = 1
  /\ call.key = "destination"
  /\ Len(call.arr) = 3
  /\ call.arr[1].destination = "Area B"
  /\ call.arr[2].destination = "Area A"
  /\ call.arr[3].destination = "Area B"
  /\ call.ret = <<call.arr[2], call.arr[1], call.arr[3]>>

(* C14: quick_sort returns a list that is already ascending in the key as  *)
(* it is, and sorting the list it returned returns that list again.        *)
C14_SortIdempotent ==
  call.fn = "quick_sort" =>
    /\ IsAscending(call.arr, call.key) => call.ret = call.arr
    /\ call.calls = 2 => (call.arr = quick_sort(call.xs, call.key) /\ call.ret = call.arr)

(* a list out of order, sorted by status, then sorted again *)
C14_Witness ==
  /\ call.fn = "quick_sort"
  /\ call.calls = 2
  /\ call.key = "status"
  /\ Len(call.xs) = 3
  /\ call.xs[1].status = "Pending"
  /\ call.xs[2].status = "Delivered"
  /\ call.xs[3].status = "Pending"
  /\ call.arr = <<call.xs[2], call.xs[1], call.xs[3]>>
  /\ call.ret = call.arr

(* C15: group_sort returns a permutation of its input in which Pending     *)
(* records come before Dispatched, these before Out for Delivery, these    *)
(* before Delivered, records whose primary key is none of the four come    *)
(* last, the records of one primary key stand together and are ascending   *)
(* in the secondary key.                                                   *)
C15_GroupedByStatusRank ==
  call.fn = "group_sort" =>
    LET ret == call.ret
        primary(i) == ret[i][call.primary_key]
        secondary(i) == ret[i][call.secondary_key]
    IN /\ IsPermutation(call.arr, ret)
       /\ \A i, j \in 1..Len(ret) : i < j => StatusRank(primary(i)) <= StatusRank(primary(j))
       /\ \A i, j \in 1..Len(ret) :
            (i < j /\ primary(i) = primary(j)) =>
              /\ ~str_lt(secondary(j), secondary(i))
              /\ \A k \in i..j : primary(k) = primary(i)

(* Returned, Pending to Area B, Pending to Area A *)
C15_Witness ==
  /\ call.fn = "group_sort"
  /\ Len(call.arr) = 3
  /\ call.arr[1].status = "Returned"
  /\ call.arr[2] = [id |-> "P2", destination |-> "Area B", status |-> "Pending"]
  /\ call.arr[3] = [id |-> "P3", destination |-> "Area A", status |-> "Pending"]
  /\ call.ret = <<call.arr[3], call.arr[2], call.arr[1]>>

(* ---- helpers for the queue-order and log properties ---- *)
SomePending == \E i \in 1..Len(deliveries) : objects[deliveries[i]].status = "Pending"
(* a record waits although no record is on its way *)
Waiting == SomePending /\ ActiveCount = 0

(* C23 as claimed: register_delivery never creates a record as Dispatched    *)
(* while a record registered earlier is Pending.                             *)
C23_NoOvertaking ==
  [][(RegisterSucceeds /\ NewRecord.status = "Dispatched") => ~SomePending]_vars

(* C23 as amended: register_delivery creates a record as Dispatched only     *)
(* when no record is active; a state where a record is Pending and none is   *)
(* active arises only from an update_status with code 1 (Pending), and it is *)
(* only in such a state that a new record overtakes a Pending one.           *)
C23_OvertakingOnlyAfterSetPending ==
  [][/\ (RegisterSucceeds /\ NewRecord.status = "Dispatched") => ActiveCount = 0
     /\ (~Waiting /\ Waiting') =>
          /\ UpdateStep
          /\ output'.msg = "updated"
          /\ output'.arg = "Pending"]_vars

(* P1 set back to Pending, P2 still Pending, P3 registered as Dispatched *)
C23_Witness ==
  /\ output = Printed("register_delivery", "Dispatched", "P3")
  /\ Len(deliveries) = 3
  /\ objects[deliveries[1]].status = "Pending"
  /\ objects[deliveries[2]].status = "Pending"
  /\ objects[deliveries[3]].status = "Dispatched"
  /\ objects[deliveries[3]].id = "P3"

(* C25 as claimed: the entries of the completion log are never changed or    *)
(* removed, and the id of every entry is the id of a store record whose      *)
(* status is Delivered.                                                      *)
C25_LogOfDeliveredRecords ==
  /\ [](\A i \in 1..Len(completed_deliveries) :
          \E j \in 1..Len(deliveries) :
            /\ objects[deliveries[j]].id = completed_deliveries[i].id
            /\ objects[deliveries[j]].status = "Delivered")
  /\ [][SubSeq(completed_deliveries', 1, Len(completed_deliveries))
          = completed_deliveries]_vars

(* C25 as amended: the log is append-only, the id of every entry is the id   *)
(* of a store record with the entry's sender, receiver and destination, and  *)
(* that record is Delivered when the entry is appended; afterwards only an   *)
(* update_status that sets another status takes it out of Delivered.         *)
C25_LogAppendOnlyDeliveredWhenLogged ==
  /\ [](\A i \in 1..Len(completed_deliveries) :
          LET entry == completed_deliveries[i]
          IN /\ entry.id \in StoreIds
             /\ entry.status = "Delivered"
             /\ entry.sender = objects[FirstWithId(entry.id)].sender
             /\ entry.receiver = objects[FirstWithId(entry.id)].receiver
             /\ entry.destination = objects[FirstWithId(entry.id)].destination)
  /\ [][/\ Len(completed_deliveries') >= Len(completed_deliveries)
         /\ SubSeq(completed_deliveries', 1, Len(completed_deliveries)) = completed_deliveries
         /\ Len(completed_deliveries') > Len(completed_deliveries) =>
              LET entry == completed_deliveries'[Len(completed_deliveries')]
              IN /\ entry.id \in StoreIds
                 /\ objects'[FirstWithId(entry.id)].status = "Delivered"
         /\ \A i \in 1..Len(completed_deliveries) :
              LET r == FirstWithId(completed_deliveries[i].id)
              IN (objects[r].status = "Delivered" /\ objects'[r].status # "Delivered") =>
                   /\ UpdateStep
                   /\ output'.msg = "updated"
                   /\ output'.arg = objects'[r].status]_vars

(* P1 delivered and logged, then set to Out for Delivery *)
C25_Witness ==
  /\ Len(completed_deliveries) = 1
  /\ completed_deliveries[1].id = "P1"
  /\ objects[FirstWithId("P1")].status = "Out for Delivery"
  /\ output = Printed("update_status", "updated", "Out for Delivery")

(* C22: when update_status only advances an active record, no state has two  *)
(* active records, a state with a Pending record has exactly one active      *)
(* record, and a record becomes Dispatched only when every record registered *)
(* before it is Delivered and every record registered after it is Pending.   *)
C22_ForwardUseKeepsOrder ==
  /\ [](ActiveCount <= 1 /\ (SomePending => ActiveCount = 1))
  /\ [][\A i \in 1..Len(deliveries') :
          (/\ objects'[deliveries'[i]].status = "Dispatched"
           /\ i <= Len(deliveries) => objects[deliveries[i]].status # "Dispatched")
            => /\ \A j \in 1..(i - 1) : objects'[deliveries'[j]].status = "Delivered"
               /\ \A j \in (i + 1)..Len(deliveries') :
                    objects'[deliveries'[j]].status = "Pending"]_vars

(* two deliveries done in registration order, the third dispatched by the second *)
C22_Witness ==
  /\ output = Printed("update_status", "updated, next auto-dispatched", "Delivered")
  /\ Len(deliveries) = 3
  /\ Len(completed_deliveries) = 2
  /\ completed_deliveries[1].id = objects[deliveries[1]].id
  /\ completed_deliveries[2].id = objects[deliveries[2]].id
  /\ objects[deliveries[3]].status = "Dispatched"

(* C24: when the operator keeps setting the active record to Delivered and   *)
(* changes no other status, every record of the store is eventually          *)
(* Dispatched and eventually Delivered: none stays Pending forever.          *)
C24_EveryRecordDelivered ==
  \A r \in 1..MaxDeliveries :
    /\ (r \in DOMAIN objects) ~> (r \in DOMAIN objects /\ objects[r].status = "Delivered")
    /\ (r \in DOMAIN objects /\ objects[r].status = "Pending")
         ~> (r \in DOMAIN objects /\ objects[r].status = "Dispatched")

(* the caller whose insertion this step is *)
Inserts(c) == call.frames[c].pc = "insert" /\ call'.frames[c].pc = "idle"

(* no record was inserted between the beginning of c's call and its insertion *)
Serialized(c) == call.frames[c].seen = Len(deliveries)

(* C21: a register_delivery that runs with no other insertion between its    *)
(* checks and its insertion keeps the guarantees of the operation: the id of *)
(* the record it inserts is not in the store, and it inserts a Dispatched    *)
(* record only when the store has no active record.                          *)
C21_SerializedRegisterKeepsGuarantees ==
  [][\A c \in Callers :
       (Inserts(c) /\ Serialized(c)) =>
         /\ call.frames[c].form.id \notin StoreIds
         /\ call.frames[c].status = "Dispatched" => ActiveCount = 0]_vars

====
